---------------------------- MODULE Spec2Model ----------------------------
(***************************************************************************)
(* SimdutParser: extraction of one labelled section of a PDF document      *)
(* into a key/value record (simdutparser/parsers/text_parser.py).          *)
(*                                                                         *)
(* Strings are sequences of tokens (a token is an indivisible piece of     *)
(* text: a word, a blank, the suffix "_conflict"); string concatenation    *)
(* is \o.  A Python dict is the sequence of its items in insertion order,  *)
(* each item [k |-> key, v |-> value].  A value is a record                *)
(* [list |-> BOOLEAN, items |-> sequence of strings]: a str is the record  *)
(* with list = FALSE and one item, a list of str the record with           *)
(* list = TRUE.                                                            *)
(***************************************************************************)
EXTENDS Integers, Sequences, FiniteSets, TLC

VARIABLES
    pc,            \* position of main()/extract_section
    handle,        \* the pymupdf document handle: "unopened", "open", "closed"
    result,        \* extract_section's result dict
    pdf_path,      \* the path given to extract_section
    doc,           \* the pages the loop of extract_section has taken so far
    locals,        \* the local variables of the last iteration of the loop
    exit_code,     \* exit status of main(): -1 while running
    csv,           \* the rows written by export_to_csv (<<>>: no file)
    call,          \* a call of one function on its own: its arguments
    ret            \* ... and what it returned

vars == <<pc, handle, result, pdf_path, doc, locals, exit_code, csv, call, ret>>

----------------------------------------------------------------------------
(* Bounds of the model *)

MaxPages == 2      \* pages of a document
MaxTables == 1     \* tables found in a region
MaxBlocks == 1     \* text blocks found in a region
MaxItems == 2      \* items of a dict passed to _merge_data / export_to_csv
MaxRawLines == 4   \* raw lines of a text block passed to _process_text_block
MaxRows == 3       \* rows of a table grid passed to _process_table

----------------------------------------------------------------------------
(* str and list values, dicts *)

Str(s) == [list |-> FALSE, items |-> <<s>>]
List(l) == [list |-> TRUE, items |-> l]
StrOf(v) == v.items[1]

EmptyDict == <<>>
Keys(d) == {d[i].k : i \in DOMAIN d}
Has(d, key) == \E i \in DOMAIN d : d[i].k = key
IndexOf(d, key) == CHOOSE i \in DOMAIN d : d[i].k = key
Get(d, key) == d[IndexOf(d, key)].v
\* d[key] = value: a new key goes last, an old key keeps its place
Put(d, key, value) ==
    IF Has(d, key)
    THEN [d EXCEPT ![IndexOf(d, key)] = [k |-> key, v |-> value]]
    ELSE Append(d, [k |-> key, v |-> value])

SeqsUpTo(S, n) == UNION {[1..m -> S] : m \in 0..n}

IsPrefix(s, t) == Len(s) <= Len(t) /\ SubSeq(t, 1, Len(s)) = s

----------------------------------------------------------------------------
(* _merge_data *)

ConflictKey(key) == key \o <<"_conflict">>

\* one iteration of the loop of _merge_data, overwriting on a conflict
MergeItem_Overwrite(existing, key, value) == Put(existing, key, value)

\* one iteration of the loop of _merge_data, a list replaced by the incoming value
MergeItem_ReplaceList(existing, key, value) ==
    IF Has(existing, key)
    THEN IF Get(existing, key).list
         THEN Put(existing, key, value)
         ELSE Put(existing, ConflictKey(key), value)
    ELSE Put(existing, key, value)

\* one iteration of the loop of _merge_data, never replacing a derived key
MergeItem_KeepConflict(existing, key, value) ==
    IF Has(existing, key)
    THEN IF Get(existing, key).list /\ value.list
         THEN Put(existing, key, List(Get(existing, key).items \o value.items))
         ELSE IF Get(existing, key).list
         THEN Put(existing, key, List(Append(Get(existing, key).items, StrOf(value))))
         ELSE IF Has(existing, ConflictKey(key))
         THEN existing
         ELSE Put(existing, ConflictKey(key), value)
    ELSE Put(existing, key, value)

\* one iteration of the loop of _merge_data
MergeItem(existing, key, value) ==
    IF Has(existing, key)
    THEN IF Get(existing, key).list /\ value.list
         THEN Put(existing, key, List(Get(existing, key).items \o value.items))
         ELSE IF Get(existing, key).list
         THEN Put(existing, key, List(Append(Get(existing, key).items, StrOf(value))))
         ELSE Put(existing, ConflictKey(key), value)
    ELSE Put(existing, key, value)

RECURSIVE MergeFrom(_, _, _)
MergeFrom(existing, new, i) ==
    IF i > Len(new)
    THEN existing
    ELSE MergeFrom(MergeItem(existing, new[i].k, new[i].v), new, i + 1)

_merge_data(existing, new) == MergeFrom(existing, new, 1)

----------------------------------------------------------------------------
(* whitespace normalisation: re.sub(r'\s+', ' ', s) and s.strip() *)

Whitespace == {" ", "\t", "\n"}

RECURSIVE CollapseFrom(_, _, _)
CollapseFrom(s, i, inRun) ==
    IF i > Len(s) THEN <<>>
    ELSE IF s[i] \in Whitespace
         THEN (IF inRun THEN <<>> ELSE <<" ">>) \o CollapseFrom(s, i + 1, TRUE)
         ELSE <<s[i]>> \o CollapseFrom(s, i + 1, FALSE)

\* re.sub(r'\s+', ' ', s)
Collapse(s) == CollapseFrom(s, 1, FALSE)

RECURSIVE LStrip(_)
LStrip(s) == IF s # <<>> /\ Head(s) \in Whitespace THEN LStrip(Tail(s)) ELSE s

RECURSIVE RStrip(_)
RStrip(s) ==
    IF s # <<>> /\ s[Len(s)] \in Whitespace THEN RStrip(SubSeq(s, 1, Len(s) - 1)) ELSE s

\* s.strip()
Strip(s) == RStrip(LStrip(s))

_clean_table_cell(cell) == Strip(Collapse(cell))

----------------------------------------------------------------------------
(* _process_table: data is the grid of table.extract(), a sequence of rows, *)
(* each row a sequence of cells.  The rows of a grid are sequences, so the  *)
(* TypeError/IndexError handler of lines 49-51 is not entered.             *)

Min(S) == CHOOSE x \in S : \A y \in S : x <= y
Max(S) == CHOOSE x \in S : \A y \in S : x >= y

\* list(zip(*data[1:])): one column per index every data row has
Columns(data) ==
    LET rows == SubSeq(data, 2, Len(data))
        n == Min({Len(rows[r]) : r \in DOMAIN rows})
    IN  [j \in 1..n |-> [r \in DOMAIN rows |-> rows[r][j]]]

\* {header: [...] for header, column in zip(headers, columns) if header}: a
\* later pair with an equal header replaces the value of the earlier one
TableDict(headers, columns) ==
    LET n == Min({Len(headers), Len(columns)})
        F[i \in 0..n] ==
            IF i = 0 THEN EmptyDict
            ELSE IF headers[i] # <<>>
                 THEN Put(F[i - 1], headers[i],
                          List([r \in DOMAIN columns[i] |-> _clean_table_cell(columns[i][r])]))
                 ELSE F[i - 1]
    IN  F[n]

_process_table(data) ==
    IF Len(data) < 2
    THEN EmptyDict
    ELSE LET headers == [j \in DOMAIN data[1] |-> _clean_table_cell(data[1][j])]
         IN  TableDict(headers, Columns(data))

----------------------------------------------------------------------------
(* _process_text_block: text is the raw text of a block *)

RECURSIVE Split(_, _)
\* s.split(sep)
Split(s, sep) ==
    IF \E i \in DOMAIN s : s[i] = sep
    THEN LET i == CHOOSE i \in DOMAIN s : s[i] = sep /\ \A j \in 1..(i - 1) : s[j] # sep
         IN  <<SubSeq(s, 1, i - 1)>> \o Split(SubSeq(s, i + 1, Len(s)), sep)
    ELSE <<s>>

\* lines 57-58: the cleaned, non-empty lines of the block
Lines(text) ==
    LET raw == Split(text, "\n")
        cleaned == [i \in DOMAIN raw |-> Collapse(Strip(raw[i]))]
    IN  SelectSeq(cleaned, LAMBDA line : line # <<>>)

None == [none |-> TRUE]
Some(s) == [none |-> FALSE, s |-> s]
\* truth value of an Optional[str]
Truthy(o) == ~o.none /\ o.s # <<>>

\* line 70-71 without the test "current_key not in processed"
OddTail_Overwrite(processed, current_key) ==
    IF ~current_key.none THEN Put(processed, current_key.s, Str(<<>>)) ELSE processed

\* lines 70-71: the key left without a value
OddTail(processed, current_key) ==
    IF ~current_key.none /\ ~Has(processed, current_key.s)
    THEN Put(processed, current_key.s, Str(<<>>))
    ELSE processed

\* lines 60-67: the loop over enumerate(lines); i is the 0-based index
PairLines(lines) ==
    LET n == Len(lines)
        F[i \in 0..n] ==
            IF i = 0 THEN [processed |-> EmptyDict, current_key |-> None]
            ELSE LET prev == F[i - 1]
                     line == lines[i]
                 IN  IF (i - 1) % 2 = 0
                     THEN [prev EXCEPT !.current_key = Some(line)]
                     ELSE IF Truthy(prev.current_key)
                          THEN [processed |-> Put(prev.processed, prev.current_key.s, Str(line)),
                                current_key |-> None]
                          ELSE prev
    IN  F[n]

_process_text_block(text) ==
    LET loop == PairLines(Lines(text))
    IN  OddTail(loop.processed, loop.current_key)

----------------------------------------------------------------------------
(* export_to_csv: the rows written to the file, header row first; <<>>    *)
(* when no file is written                                                 *)

\* line 196 reading a scalar into every row
Entry_ScalarEveryRow(value, row_idx) ==
    IF value.list
    THEN IF row_idx < Len(value.items) THEN value.items[row_idx + 1] ELSE <<>>
    ELSE StrOf(value)

\* lines 195-198: the cell of one value in row row_idx (0-based)
Entry(value, row_idx) ==
    IF value.list
    THEN IF row_idx < Len(value.items) THEN value.items[row_idx + 1] ELSE <<>>
    ELSE IF row_idx = 0 THEN StrOf(value) ELSE <<>>

export_to_csv(data) ==
    IF data = EmptyDict
    THEN <<>>
    ELSE LET headers == [h \in DOMAIN data |-> data[h].k]
             max_rows == Max({IF data[h].v.list THEN Len(data[h].v.items) ELSE 1
                                : h \in DOMAIN data})
             rows == [r \in 1..max_rows |-> [h \in DOMAIN data |-> Entry(data[h].v, r - 1)]]
         IN  <<headers>> \o rows

----------------------------------------------------------------------------
(* The pattern matcher: re.compile(re.escape(text.strip()), re.IGNORECASE) *)

Lower(tok) == IF tok \in {"SECTION", "Section"} THEN "section" ELSE tok
LowerStr(s) == [i \in DOMAIN s |-> Lower(s[i])]

_compile_pattern(text) == LowerStr(Strip(text))

\* pattern.search(s): the pattern occurs in s, whatever the case
Search(pattern, s) ==
    \E i \in 0..(Len(s) - Len(pattern)) :
        SubSeq(LowerStr(s), i + 1, i + Len(pattern)) = pattern

section_title == <<"Section", " ", "14">>
section_pattern == _compile_pattern(section_title)
base_section_pattern == _compile_pattern(<<"section">>)

----------------------------------------------------------------------------
(* A page of the document, as the document access layer presents it:       *)
(*   text    get_text(): the text of the page, lines separated by "\n"     *)
(*   hits    search_for: for a needle, the rectangles where it was found    *)
(*   tables  find_tables(clip): the tables, each with its bbox and grid     *)
(*   blocks  get_text("blocks", clip): the blocks, each with rect and text  *)
(*   broken  the page cannot be read: page access raises                    *)
(*   search_none  search_for(None): "raises" or "returns_nothing"           *)
(* A rectangle is <<x0, y0, x1, y1>>.                                       *)

PageWidth == 10

RectIsEmpty(r) == r[1] >= r[3] \/ r[2] >= r[4]
\* pymupdf Rect.intersects: the intersection is not empty
Intersects(r, z) ==
    /\ ~RectIsEmpty(r) /\ ~RectIsEmpty(z)
    /\ Max({r[1], z[1]}) < Min({r[3], z[3]})
    /\ Max({r[2], z[2]}) < Min({r[4], z[4]})
\* pymupdf Rect.__bool__: false for the rectangle of four zeros only
RectTruthy(r) == ~(Max({r[1], r[2], r[3], r[4]}) = 0 /\ Min({r[1], r[2], r[3], r[4]}) = 0)

StartLine == <<"SECTION", " ", "14">>
StopLine == <<"Section", " ", "15", " ", "Other">>
StartRect == <<1, 1, 5, 2>>
StopRect == <<1, 8, 5, 9>>

TextNoSection == <<"Intro", "\n", "section", " ", "13">>
TextStartStop == <<" ">> \o StartLine \o <<"\n", "Water", "\n">> \o StopLine
TextStartOnly == <<"section", " ", "13", "\n">> \o StartLine \o <<"\t", "\n", "Water">>

TableA ==
    [bbox |-> <<1, 3, 9, 5>>,
     data |-> << << <<"Ingredient">>, <<"CAS">> >>, << <<"Water">>, <<"7732-18-5">> >> >>]
TableB ==
    [bbox |-> <<1, 5, 9, 7>>,
     data |-> << << <<"name", "_conflict">> >>, << <<"c">> >> >>]
TableChoices == <<TableA, TableB>>

BlockA == [rect |-> <<2, 3, 8, 4>>, text |-> <<"Ingredient", "\n", "Salt">>]
BlockB == [rect |-> <<2, 6, 8, 7>>, text |-> <<"name", "\n", "q", "\n", "CAS">>]
BlockChoices == <<BlockA, BlockB>>

\* search_none: what the library does with search_for(None) on this page
Page(text, hits, tables, blocks, broken, search_none) ==
    [text |-> text, hits |-> hits, tables |-> tables, blocks |-> blocks,
     broken |-> broken, search_none |-> search_none]

BothHits == {[needle |-> StartLine, rects |-> <<StartRect>>],
             [needle |-> StopLine, rects |-> <<StopRect, <<1, 9, 5, 10>> >>]}

\* the elements of s at the positions of I, in the order of s
Pick(s, I) ==
    LET F[i \in 0..Len(s)] ==
            IF i = 0 THEN <<>> ELSE IF i \in I THEN Append(F[i - 1], s[i]) ELSE F[i - 1]
    IN  F[Len(s)]

\* at most n of the elements of s, in the order of s
PicksUpTo(s, n) == {Pick(s, I) : I \in {J \in SUBSET DOMAIN s : Cardinality(J) <= n}}

Pages ==
    {Page(TextNoSection, {}, <<>>, <<>>, FALSE, "raises"),
     Page(TextNoSection, {}, <<>>, <<>>, TRUE, "raises"),
     Page(TextStartOnly, {[needle |-> StartLine, rects |-> <<StartRect>>]},
          <<TableA>>, <<BlockB>>, FALSE, "raises"),
     Page(TextStartOnly, {[needle |-> StartLine, rects |-> <<StartRect>>]},
          <<TableA>>, <<BlockB>>, FALSE, "returns_nothing"),
     Page(TextStartStop, {[needle |-> StartLine, rects |-> <<StartRect>>]},
          <<>>, <<>>, FALSE, "raises"),
     Page(TextStartStop, {[needle |-> StopLine, rects |-> <<StopRect>>]},
          <<>>, <<>>, FALSE, "raises")}
    \cup {Page(TextStartStop, BothHits, t, b, FALSE, "raises") :
            t \in PicksUpTo(TableChoices, MaxTables), b \in PicksUpTo(BlockChoices, MaxBlocks)}

\* page.search_for(needle), needle a str
search_for(p, needle) ==
    IF \E h \in p.hits : h.needle = needle
    THEN (CHOOSE h \in p.hits : h.needle = needle).rects
    ELSE <<>>

----------------------------------------------------------------------------
(* _find_section_boundaries *)

StrippedLines(text) ==
    LET raw == Split(text, "\n") IN [i \in DOMAIN raw |-> Strip(raw[i])]

_find_section_boundaries(p) ==
    LET lines == StrippedLines(p.text)
        starts == {i \in DOMAIN lines : Search(section_pattern, lines[i])}
    IN  IF starts = {}
        THEN None
        ELSE LET i == Min(starts)
                 stops == {j \in DOMAIN lines : j > i /\ Search(base_section_pattern, lines[j])}
             IN  [none |-> FALSE,
                  start_marker |-> Some(lines[i]),
                  stop_marker |-> IF stops = {} THEN None ELSE Some(lines[Min(stops)])]

----------------------------------------------------------------------------
(* _calculate_subsection_bbox: returns [raised, bbox], bbox None or Some   *)

_calculate_subsection_bbox(p, markers) ==
    LET start_rects == search_for(p, markers.start_marker.s)
    IN  IF markers.stop_marker.none /\ p.search_none = "raises"
        \* line 97: the error of search_for(None) is no KeyError
        THEN [raised |-> TRUE, bbox |-> None]
        ELSE LET stop_rects == IF markers.stop_marker.none
                               THEN <<>>
                               ELSE search_for(p, markers.stop_marker.s)
             IN  IF start_rects = <<>> \/ stop_rects = <<>>
                 THEN [raised |-> FALSE, bbox |-> None]
                 ELSE [raised |-> FALSE,
                       bbox |-> Some(<<0, start_rects[1][4], PageWidth, stop_rects[1][2]>>)]

----------------------------------------------------------------------------
(* _process_page_content: returns the content with the exclusion zones and *)
(* the indices of the text blocks whose text was merged                    *)

\* the test of line 171 without the exclusion zones
SkipsBlock_NoZones(block, exclusion_zones) == Strip(block.text) = <<>>

\* line 171: the block is blank or lies on a table
SkipsBlock(block, exclusion_zones) ==
    \/ Strip(block.text) = <<>>
    \/ \E z \in DOMAIN exclusion_zones : Intersects(block.rect, exclusion_zones[z])

_process_page_content(p, bbox) ==
    LET nt == Len(p.tables)
        T[i \in 0..nt] ==
            IF i = 0 THEN [content |-> EmptyDict, exclusion_zones |-> <<>>]
            ELSE [content |-> _merge_data(T[i - 1].content, _process_table(p.tables[i].data)),
                  exclusion_zones |-> Append(T[i - 1].exclusion_zones, p.tables[i].bbox)]
        zones == T[nt].exclusion_zones
        nb == Len(p.blocks)
        B[i \in 0..nb] ==
            IF i = 0 THEN [content |-> T[nt].content, used |-> {}]
            ELSE IF SkipsBlock(p.blocks[i], zones)
                 THEN B[i - 1]
                 ELSE [content |-> _merge_data(B[i - 1].content,
                                               _process_text_block(p.blocks[i].text)),
                       used |-> B[i - 1].used \cup {i}]
    IN  [content |-> B[nb].content, exclusion_zones |-> zones, used |-> B[nb].used]

----------------------------------------------------------------------------
(* extract_section *)

NoLocals ==
    [step |-> "none", bbox |-> None, page_result |-> EmptyDict,
     exclusion_zones |-> <<>>, used |-> {}]

Skipped(why) == [NoLocals EXCEPT !.step = why]

\* str.replace(old, ''): every occurrence of the token is removed
Remove(s, old) == SelectSeq(s, LAMBDA tok : tok # old)

Paths == {<<"sds", ".pdf">>, <<"old", ".pdf", "copy", ".pdf">>}

\* line 131
SeedResult(path) == <<[k |-> <<"name">>, v |-> Str(Remove(path, ".pdf"))]>>

\* the finally clause around the loop, as a close after the loop only
LeaveLoop_NoFinally(h, raised) == IF raised THEN h ELSE "closed"

\* lines 149-150: doc.close() however the try block is left
LeaveLoop(h, raised) == "closed"

\* lines 134-147: one iteration of the loop, on page p with the result so far
LoopBody(res, p) ==
    IF p.broken
    THEN [raised |-> TRUE, result |-> res, locals |-> Skipped("raised")]
    ELSE IF ~Search(section_pattern, p.text)
    THEN [raised |-> FALSE, result |-> res, locals |-> Skipped("no_section")]
    ELSE LET markers == _find_section_boundaries(p)
         IN  IF markers.none
             THEN [raised |-> FALSE, result |-> res, locals |-> Skipped("no_markers")]
             ELSE LET b == _calculate_subsection_bbox(p, markers)
                  IN  IF b.raised
                      THEN [raised |-> TRUE, result |-> res, locals |-> Skipped("raised")]
                      ELSE IF b.bbox.none \/ ~RectTruthy(b.bbox.s)
                      THEN [raised |-> FALSE, result |-> res, locals |-> Skipped("no_bbox")]
                      ELSE LET c == _process_page_content(p, b.bbox.s)
                           IN  [raised |-> FALSE,
                                result |-> _merge_data(res, c.content),
                                locals |-> [step |-> "merged", bbox |-> b.bbox,
                                            page_result |-> c.content,
                                            exclusion_zones |-> c.exclusion_zones,
                                            used |-> c.used]]

----------------------------------------------------------------------------
(* The functions called on their own: the arguments are drawn by CallsInit, *)
(* one action per function applies it.                                      *)

NoCall == [fn |-> "none"]
NotReturned == [done |-> FALSE]
Returned(value) == [done |-> TRUE, value |-> value]

\* the dicts of at most n items over the given keys and values
Dicts(keys, values, n) ==
    {d \in SeqsUpTo([k : keys, v : values], n) :
        \A i, j \in DOMAIN d : i # j => d[i].k # d[j].k}

MergeKeys == {<<"X">>, <<"X", "_conflict">>, <<"X", "_conflict", "_conflict">>}
MergeValues == {Str(<<"a">>), Str(<<"b">>), List(<< <<"c">> >>)}
MergeCalls ==
    {[fn |-> "_merge_data", existing |-> e, new |-> n] :
        e \in Dicts(MergeKeys, MergeValues, MaxItems),
        n \in Dicts(MergeKeys, MergeValues, MaxItems)}

RawLines == {<<"Name">>, <<"Acme">>, <<"Date">>, <<"\t">>, <<" ", "Name", " ", "\t", "Co", " ">>}
RECURSIVE Join(_, _)
\* sep.join(lines)
Join(lines, sep) ==
    IF lines = <<>> THEN <<>>
    ELSE IF Len(lines) = 1 THEN lines[1]
    ELSE lines[1] \o <<sep>> \o Join(Tail(lines), sep)
TextCalls ==
    {[fn |-> "_process_text_block", text |-> Join(l, "\n")] : l \in SeqsUpTo(RawLines, MaxRawLines)}

TableRows ==
    { <<>>,
      << <<"A">> >>,
      << <<"A">>, <<"A">> >>,
      << <<"A">>, <<"B">> >>,
      << <<" ">>, <<"B">> >>,
      << <<" ", "A", "\t", " ", "B">>, <<>> >>,
      << <<"B">>, <<"A">>, <<"B">> >> }
TableCalls ==
    {[fn |-> "_process_table", data |-> g] : g \in SeqsUpTo(TableRows, MaxRows)}

ExportKeys == {<<"name">>, <<"X">>, <<"Y">>}
ExportValues == {Str(<<"a">>), List(<<>>), List(<< <<"b">>, <<"c">> >>)}
ExportCalls ==
    {[fn |-> "export_to_csv", data |-> d] : d \in Dicts(ExportKeys, ExportValues, MaxItems)}

MainIdle ==
    /\ pc = "start"
    /\ handle = "unopened"
    /\ result = EmptyDict
    /\ pdf_path = <<>>
    /\ doc = <<>>
    /\ locals = NoLocals
    /\ exit_code = -1
    /\ csv = <<>>

mainVars == <<pc, handle, result, pdf_path, doc, locals, exit_code, csv>>

CallsInit ==
    /\ MainIdle
    /\ \/ call \in MergeCalls
       \/ call \in TextCalls
       \/ call \in TableCalls
       \/ call \in ExportCalls
    /\ ret = NotReturned

CallMerge ==
    /\ call.fn = "_merge_data" /\ ~ret.done
    /\ ret' = Returned(_merge_data(call.existing, call.new))
    /\ UNCHANGED <<mainVars, call>>

CallProcessTextBlock ==
    /\ call.fn = "_process_text_block" /\ ~ret.done
    /\ ret' = Returned(_process_text_block(call.text))
    /\ UNCHANGED <<mainVars, call>>

CallProcessTable ==
    /\ call.fn = "_process_table" /\ ~ret.done
    /\ ret' = Returned(_process_table(call.data))
    /\ UNCHANGED <<mainVars, call>>

CallExport ==
    /\ call.fn = "export_to_csv" /\ ~ret.done
    /\ ret' = Returned(export_to_csv(call.data))
    /\ UNCHANGED <<mainVars, call>>

CallsNext == CallMerge \/ CallProcessTextBlock \/ CallProcessTable \/ CallExport

Calls == CallsInit /\ [][CallsNext]_vars

----------------------------------------------------------------------------
(* main(): one run of the command on one document *)

Init ==
    /\ MainIdle
    /\ call = NoCall
    /\ ret = NotReturned

\* lines 220-223 or line 130 fail: bad arguments, bad config, no such document
StartFails ==
    /\ pc = "start"
    /\ pc' = "exit"
    /\ exit_code' = 1
    /\ UNCHANGED <<handle, result, pdf_path, doc, locals, csv, call, ret>>

\* lines 130-131
Open ==
    /\ pc = "start"
    /\ \E path \in Paths :
        /\ pdf_path' = path
        /\ result' = SeedResult(path)
    /\ handle' = "open"
    /\ pc' = "loop"
    /\ UNCHANGED <<doc, locals, exit_code, csv, call, ret>>

\* lines 133-147: the loop takes the next page
Iterate ==
    /\ pc = "loop"
    /\ Len(doc) < MaxPages
    /\ \E p \in Pages :
        LET out == LoopBody(result, p)
        IN  /\ doc' = Append(doc, p)
            /\ result' = out.result
            /\ locals' = out.locals
            /\ pc' = IF out.raised THEN "raised" ELSE "loop"
            /\ handle' = IF out.raised THEN LeaveLoop(handle, TRUE) ELSE handle
    /\ UNCHANGED <<pdf_path, exit_code, csv, call, ret>>

\* lines 133, 149-152: no page is left
Return ==
    /\ pc = "loop"
    /\ handle' = LeaveLoop(handle, FALSE)
    /\ pc' = "returned"
    /\ UNCHANGED <<result, pdf_path, doc, locals, exit_code, csv, call, ret>>

\* lines 226-231
Export ==
    /\ pc = "returned"
    /\ IF result # EmptyDict
       THEN csv' = export_to_csv(result) /\ exit_code' = 0
       ELSE csv' = csv /\ exit_code' = 1
    /\ pc' = "exit"
    /\ UNCHANGED <<handle, result, pdf_path, doc, locals, call, ret>>

\* lines 233-235
Catch ==
    /\ pc = "raised"
    /\ exit_code' = 1
    /\ pc' = "exit"
    /\ UNCHANGED <<handle, result, pdf_path, doc, locals, csv, call, ret>>

Next == StartFails \/ Open \/ Iterate \/ Return \/ Export \/ Catch

Spec == Init /\ [][Next]_vars

----------------------------------------------------------------------------
(* Claims about _merge_data, checked under Calls *)

MergeReturned == call.fn = "_merge_data" /\ ret.done

\* the derived keys of the keys of a fragment
DerivedKeys(new) == {ConflictKey(j) : j \in Keys(new)}

\* C1 as stated: for every key k of incoming that existing holds as a scalar,
\* existing[k] keeps its value and the incoming value is stored under
\* k + "_conflict"; no scalar held by the accumulator is overwritten.
C1_ScalarsKeptConflictStored ==
    MergeReturned =>
        LET e == call.existing
            n == call.new
            r == ret.value
        IN  /\ \A k \in Keys(n) :
                (Has(e, k) /\ ~Get(e, k).list) =>
                    /\ Has(r, k) /\ Get(r, k) = Get(e, k)
                    /\ Has(r, ConflictKey(k)) /\ Get(r, ConflictKey(k)) = Get(n, k)
            /\ \A k \in Keys(e) : ~Get(e, k).list => (Has(r, k) /\ Get(r, k) = Get(e, k))

\* what a conflict on k leaves under k + "_conflict": the incoming value of k,
\* extended by the incoming value of k + "_conflict" when that key comes later
\* in the fragment and the value of k is a list
ConflictValue(n, k) ==
    IF Get(n, k).list /\ Has(n, ConflictKey(k)) /\ IndexOf(n, ConflictKey(k)) > IndexOf(n, k)
    THEN List(Get(n, k).items \o Get(n, ConflictKey(k)).items)
    ELSE Get(n, k)

\* C1 amended: for every key k of incoming that existing holds as a scalar and
\* that is not the derived key j + "_conflict" of a key j of incoming,
\* existing[k] keeps its value and k + "_conflict" holds the incoming value of k
\* (extended by the incoming value of k + "_conflict" when that key follows k in
\* incoming and the value of k is a list); a scalar of the accumulator is
\* overwritten only under a derived key of a key of incoming.
C1_ScalarsKeptOutsideDerivedKeys ==
    MergeReturned =>
        LET e == call.existing
            n == call.new
            r == ret.value
        IN  /\ \A k \in Keys(n) \ DerivedKeys(n) :
                (Has(e, k) /\ ~Get(e, k).list) =>
                    /\ Has(r, k) /\ Get(r, k) = Get(e, k)
                    /\ Has(r, ConflictKey(k))
                    /\ Get(r, ConflictKey(k)) = ConflictValue(n, k)
            /\ \A k \in Keys(e) \ DerivedKeys(n) :
                ~Get(e, k).list => (Has(r, k) /\ Get(r, k) = Get(e, k))

\* the example of the specification: X = "a" merged with X = "b", an older
\* conflict value being replaced
C1_Witness ==
    /\ MergeReturned
    /\ call.existing = <<[k |-> <<"X">>, v |-> Str(<<"a">>)],
                         [k |-> <<"X", "_conflict">>, v |-> List(<< <<"c">> >>)]>>
    /\ call.new = <<[k |-> <<"X">>, v |-> Str(<<"b">>)]>>
    /\ ret.value = <<[k |-> <<"X">>, v |-> Str(<<"a">>)],
                     [k |-> <<"X", "_conflict">>, v |-> Str(<<"b">>)]>>

----------------------------------------------------------------------------
(* Claims about _process_text_block, checked under Calls *)

TextReturned == call.fn = "_process_text_block" /\ ret.done

\* the 1-based positions of the keys that have a value line after them
PairKeys(lines) == {i \in DOMAIN lines : i % 2 = 1 /\ i + 1 <= Len(lines)}

\* C8 as stated: every even-indexed line is a key whose value is the following
\* odd-indexed line; a final unpaired key gets "" unless an earlier pair gave it
\* a value, which is then kept.
C8_EveryPairKeepsItsValue ==
    TextReturned =>
        LET lines == Lines(call.text)
            n == Len(lines)
            processed == ret.value
        IN  /\ \A i \in PairKeys(lines) :
                Has(processed, lines[i]) /\ Get(processed, lines[i]) = Str(lines[i + 1])
            /\ n % 2 = 1 =>
                /\ Has(processed, lines[n])
                /\ (\A i \in PairKeys(lines) : lines[i] # lines[n])
                        => Get(processed, lines[n]) = Str(<<>>)

\* C8 amended: the keys are the even-indexed lines; a key that has several
\* pairs holds the value of its last pair; a final unpaired key gets "" unless
\* a pair gave it a value, which is then kept.
C8_LastPairOfAKeyWins ==
    TextReturned =>
        LET lines == Lines(call.text)
            n == Len(lines)
            processed == ret.value
        IN  /\ Keys(processed) = {lines[i] : i \in {j \in DOMAIN lines : j % 2 = 1}}
            /\ \A i \in PairKeys(lines) :
                (\A j \in PairKeys(lines) : j > i => lines[j] # lines[i])
                    => Get(processed, lines[i]) = Str(lines[i + 1])
            /\ (n % 2 = 1 /\ \A i \in PairKeys(lines) : lines[i] # lines[n])
                    => Get(processed, lines[n]) = Str(<<>>)
            /\ \A i, j \in DOMAIN processed : i # j => processed[i].k # processed[j].k

\* an odd number of lines whose last key already has a value from a pair
C8_Witness ==
    /\ TextReturned
    /\ Lines(call.text) = << <<"Name">>, <<"Acme">>, <<"Name">> >>
    /\ ret.value = <<[k |-> <<"Name">>, v |-> Str(<<"Acme">>)]>>

----------------------------------------------------------------------------
(* Claims about export_to_csv, checked under Calls *)

ExportReturned == call.fn = "export_to_csv" /\ ret.done

ValueLen(v) == IF v.list THEN Len(v.items) ELSE 1

\* C9: a non-empty record gives the header row of its keys in insertion order
\* and N data rows, N the greatest length of a value (a scalar has length 1);
\* row r holds the r-th element of a list or "" past its end, a scalar in row 0
\* and "" below; an empty record writes nothing.
C9_ExportMatrix ==
    ExportReturned =>
        LET data == call.data
            rows == ret.value
        IN  IF data = EmptyDict
            THEN rows = <<>>
            ELSE /\ Len(rows) >= 1
                 /\ rows[1] = [h \in DOMAIN data |-> data[h].k]
                 /\ \E h \in DOMAIN data : ValueLen(data[h].v) = Len(rows) - 1
                 /\ \A h \in DOMAIN data : ValueLen(data[h].v) <= Len(rows) - 1
                 /\ \A r \in 2..Len(rows) :
                        /\ Len(rows[r]) = Len(data)
                        /\ \A h \in DOMAIN data :
                            rows[r][h] =
                                IF data[h].v.list
                                THEN IF r - 1 <= Len(data[h].v.items)
                                     THEN data[h].v.items[r - 1]
                                     ELSE <<>>
                                ELSE IF r = 2 THEN data[h].v.items[1] ELSE <<>>

\* a scalar beside a list of two: two data rows, the scalar in the first only
C9_Witness ==
    /\ ExportReturned
    /\ call.data = <<[k |-> <<"name">>, v |-> Str(<<"a">>)],
                     [k |-> <<"X">>, v |-> List(<< <<"b">>, <<"c">> >>)]>>
    /\ ret.value = << << <<"name">>, <<"X">> >>,
                      << <<"a">>, <<"b">> >>,
                      << <<>>, <<"c">> >> >>

----------------------------------------------------------------------------
(* Claims about _process_table, checked under Calls *)

TableReturned == call.fn = "_process_table" /\ ret.done

\* C10: a grid of fewer than 2 rows gives the empty fragment; otherwise every
\* header that is not empty once cleaned is a key mapped to the cleaned cells of
\* its own column, one per data row, and the other columns are dropped; also
\* with equal headers and with data rows of differing lengths.
C10_EveryHeaderKeepsItsColumn ==
    TableReturned =>
        LET data == call.data
            fragment == ret.value
        IN  IF Len(data) < 2
            THEN fragment = EmptyDict
            ELSE /\ Keys(fragment) =
                        {_clean_table_cell(data[1][j]) : j \in DOMAIN data[1]} \ {<<>>}
                 /\ \A j \in DOMAIN data[1] :
                        LET header == _clean_table_cell(data[1][j])
                        IN  header # <<>> =>
                            /\ Has(fragment, header)
                            /\ Get(fragment, header).list
                            /\ Len(Get(fragment, header).items) = Len(data) - 1
                            /\ \A r \in 2..Len(data) :
                                j <= Len(data[r]) =>
                                    Get(fragment, header).items[r - 1]
                                        = _clean_table_cell(data[r][j])

----------------------------------------------------------------------------
(* Claims about one run of the command, checked under Spec *)

NameKey == <<"name">>
LastPage == doc[Len(doc)]
InExtraction == pc \in {"loop", "returned", "raised"} \/ (pc = "exit" /\ handle # "unopened")

\* the list held under key k in d only grew from d to e
ListGrew(d, e, k) ==
    /\ Has(e, k)
    /\ Get(e, k).list
    /\ IsPrefix(Get(d, k).items, Get(e, k).items)

RECURSIVE Replaceable(_, _, _)
Replaceable(key, e, new) ==
    /\ Len(key) > 1
    /\ key[Len(key)] = "_conflict"
    /\ LET k == SubSeq(key, 1, Len(key) - 1)
       IN  /\ Has(new, k)
           /\ \/ Has(e, k) /\ ~Get(e, k).list
              \/ Replaceable(k, e, new)

C3_NameKept ==
    InExtraction =>
        /\ Has(result, NameKey)
        /\ Get(result, NameKey) = Str(Remove(pdf_path, ".pdf"))
        /\ result[1].k = NameKey

\* a page whose text block has the key "name" has been merged
C3_Witness ==
    /\ pc = "returned"
    /\ locals.step = "merged"
    /\ Has(locals.page_result, NameKey)
    /\ Has(result, ConflictKey(NameKey))

\* the page has a line with the section label and no later line with "section"
StartWithoutStop(p) ==
    /\ ~p.broken
    /\ \E i \in DOMAIN StrippedLines(p.text) :
        /\ Search(section_pattern, StrippedLines(p.text)[i])
        /\ \A j \in DOMAIN StrippedLines(p.text) :
            j > i => ~Search(base_section_pattern, StrippedLines(p.text)[j])
        /\ \A j \in 1..(i - 1) : ~Search(section_pattern, StrippedLines(p.text)[j])

\* C4: a page with a start marker and no stop marker computes no region, merges
\* nothing, leaves the record unchanged and does not fail the run, which goes on
\* with the next page.
C4_NoStopMarkerSkipsPage ==
    [][(Len(doc') = Len(doc) + 1 /\ StartWithoutStop(doc'[Len(doc')])) =>
          /\ locals'.bbox = None
          /\ locals'.step \in {"no_markers", "no_bbox"}
          /\ result' = result
          /\ pc' = "loop"]_vars

\* no page of the document has the section label in its text
NoSectionAnywhere == \A i \in DOMAIN doc : ~doc[i].broken /\ ~Search(section_pattern, doc[i].text)

\* the fields extracted: the keys of the record other than "name"
Extracted == Keys(result) \ {NameKey}

\* C5: a document with the section label on no page returns exactly the name
\* field, which main treats as a failure: no export, exit code 1; main exits 1
\* whenever no field was extracted and 0 only when a field was extracted and
\* nothing failed.
C5_NoFieldsExitsOne ==
    (pc = "exit" /\ handle # "unopened") =>
        /\ NoSectionAnywhere => (result = SeedResult(pdf_path) /\ csv = <<>> /\ exit_code = 1)
        /\ Extracted = {} => exit_code = 1
        /\ exit_code = 0 => Extracted # {}

\* C6: once opened, the handle is closed before extract_section is left, by
\* return or by an error of the loop, and it is open while pages are taken.
C6_HandleClosedOnExit ==
    /\ (pc \in {"returned", "raised"} \/ (pc = "exit" /\ handle # "unopened"))
            => handle = "closed"
    /\ pc = "loop" => handle = "open"
    /\ pc = "start" => handle = "unopened"

\* an error raised on the second page, after a page was merged
C6_Witness ==
    /\ pc = "raised"
    /\ Len(doc) = 2
    /\ handle = "closed"
    /\ Len(result) > 1

\* the blocks of page p that lie on a table of p
OnTable(p) ==
    {i \in DOMAIN p.blocks :
        \E t \in DOMAIN p.tables : Intersects(p.blocks[i].rect, p.tables[t].bbox)}

\* C7: a text block whose rectangle intersects the bbox of a table found in the
\* region contributes nothing to the page fragment, and every table is an
\* exclusion zone before the first text block is looked at.
C7_TablesExcludeBlocks ==
    locals.step = "merged" =>
        /\ locals.used \cap OnTable(LastPage) = {}
        /\ locals.exclusion_zones = [t \in DOMAIN LastPage.tables |-> LastPage.tables[t].bbox]
        /\ locals.page_result =
              _process_page_content(
                  [LastPage EXCEPT !.blocks =
                      SelectSeq(LastPage.blocks,
                                LAMBDA b : \A t \in DOMAIN LastPage.tables :
                                              ~Intersects(b.rect, LastPage.tables[t].bbox))],
                  locals.bbox.s).content

\* a page with a table and a parseable text block lying on it
C7_Witness ==
    /\ locals.step = "merged"
    /\ LastPage.tables = <<TableA>>
    /\ LastPage.blocks = <<BlockA>>
    /\ locals.page_result = _process_table(TableA.data)

=============================================================================
